---- MODULE Spec2Model ----
(***************************************************************************)
(* Model of cargo_build.py: the wrapper that classifies its command line,  *)
(* runs `sh cargo.sh build <args>` and copies the produced artifact to the *)
(* destination given as the first positional argument.                     *)
(*                                                                         *)
(* A Python str is modelled as the sequence of its characters, so that     *)
(* str.startswith, the truth value of a str and the splitting of a path    *)
(* into its components are computed rather than assumed.                    *)
(***************************************************************************)
EXTENDS Integers, Sequences, FiniteSets, TLC

VARIABLES argv, args, binary_dir, filename, out_path, pc,
          build_cmd, build_status, copy_cmd, copy_status, exit_status

vars == <<argv, args, binary_dir, filename, out_path, pc,
          build_cmd, build_status, copy_cmd, copy_status, exit_status>>

(* ---------------------------- bounds ---------------------------------- *)

\* longest command line explored
MaxArgs == 4

\* largest exit status a subprocess reports
MaxStatus == 2

(* ------------------------- string literals ---------------------------- *)

RELEASE == <<"-", "-", "r", "e", "l", "e", "a", "s", "e">>

RENAME == <<"-", "-", "r", "e", "n", "a", "m", "e">>

DASHDASH == <<"-", "-">>

DEBUG_DIR == <<"d", "e", "b", "u", "g">>

RELEASE_DIR == <<"r", "e", "l", "e", "a", "s", "e">>

SH == <<"s", "h">>

BUILD == <<"b", "u", "i", "l", "d">>

CP == <<"c", "p">>

DASH_A == <<"-", "a">>

\* source_dir.as_posix(): the directory holding the script
SourceDir == <<"/", "s">>

\* components of the working directory the tool is started in
Cwd == << <<"w">> >>

\* the tokens a command line is drawn from: the two flags the tool knows, a
\* flag it does not know, the empty string, a single-dash option, a relative
\* name, an absolute path and a name ending in a slash
Tokens ==
    { RELEASE, RENAME, <<"-", "-", "x">>, <<>>, <<"-", "o">>,
      <<"f", "o", "o">>, <<"/", "o", "/", "a">>, <<"b", "/">> }

RECURSIVE SeqsUpTo(_, _)
SeqsUpTo(S, n) ==
    IF n = 0 THEN { <<>> }
    ELSE LET shorter == SeqsUpTo(S, n - 1)
         IN  shorter \cup { Append(s, t) : s \in { x \in shorter : Len(x) = n - 1 }, t \in S }

(* ------------------------ Python list and str ------------------------- *)

\* x in list
In(x, s) == \E i \in DOMAIN s : s[i] = x

\* the slip of searching from the end: the last position holding x
IndexLast(s, x) == CHOOSE i \in DOMAIN s : s[i] = x /\ \A j \in (i + 1)..Len(s) : s[j] # x

\* list.index(x) for x in list: the first position holding x
Index(s, x) == CHOOSE i \in DOMAIN s : s[i] = x /\ \A j \in 1..(i - 1) : s[j] # x

\* the list left by list.pop(i), i within range
Pop(s, i) == SubSeq(s, 1, i - 1) \o SubSeq(s, i + 1, Len(s))

\* the slip of testing the first character of the prefix only
StartsWithFirstChar(s, prefix) ==
    /\ Len(s) >= 1
    /\ Len(prefix) >= 1
    /\ s[1] = prefix[1]

\* str.startswith(prefix)
StartsWith(s, prefix) ==
    /\ Len(s) >= Len(prefix)
    /\ \A i \in DOMAIN prefix : s[i] = prefix[i]

\* truth value of a str or a list
Truthy(v) == Len(v) > 0

(* A name bound either to a str or to something else (None, a list).       *)
StrVal(s) == [kind |-> "str", val |-> s]

NoneVal == [kind |-> "none", val |-> <<>>]

EmptyList == [kind |-> "list", val |-> <<>>]

(* ----------------------------- pathlib -------------------------------- *)

RECURSIVE Split(_, _)
Split(s, sep) ==
    IF \A i \in DOMAIN s : s[i] # sep THEN << s >>
    ELSE LET k == CHOOSE i \in DOMAIN s : s[i] = sep /\ \A j \in 1..(i - 1) : s[j] # sep
         IN  << SubSeq(s, 1, k - 1) >> \o Split(SubSeq(s, k + 1, Len(s)), sep)

NotDot(c) == c # <<>> /\ c # <<".">>

\* Path(s): empty and '.' components are dropped, '..' is kept
Path(s) ==
    [abs |-> (Len(s) > 0 /\ s[1] = "/"),
     parts |-> SelectSeq(Split(s, "/"), NotDot)]

\* Path.absolute(): prefixes the working directory, resolves nothing
Absolute(p) == IF p.abs THEN p ELSE [abs |-> TRUE, parts |-> Cwd \o p.parts]

\* Path.name: the final component, '' when there is none
Name(p) == IF p.parts = <<>> THEN <<>> ELSE p.parts[Len(p.parts)]

RECURSIVE Join(_)
Join(parts) ==
    IF parts = <<>> THEN <<>>
    ELSE IF Len(parts) = 1 THEN parts[1]
    ELSE parts[1] \o <<"/">> \o Join(Tail(parts))

\* str(path), as subprocess passes a Path argument
PathStr(p) ==
    IF p.abs THEN <<"/">> \o Join(p.parts)
    ELSE IF p.parts = <<>> THEN <<".">> ELSE Join(p.parts)

(* ---------------------------- commands -------------------------------- *)

\* ['sh', "{}/cargo.sh".format(source_dir.as_posix()), 'build'] + args
BuildCmd(a) ==
    << SH, SourceDir \o <<"/", "c", "a", "r", "g", "o", ".", "s", "h">>, BUILD >> \o a

\* './{}/{}'.format(binary_dir, filename)
ArtifactPath(dir, name) == <<".", "/">> \o dir \o <<"/">> \o name

\* ['cp', '-a', './{}/{}'.format(binary_dir, filename), out_path]
CopyCmd(dir, name, dest) == << CP, DASH_A, ArtifactPath(dir, name), PathStr(dest) >>

(* ------------------------------ state --------------------------------- *)

Init ==
    /\ argv \in SeqsUpTo(Tokens, MaxArgs)
    /\ args = argv
    /\ binary_dir = DEBUG_DIR
    /\ filename = NoneVal
    /\ out_path = EmptyList
    /\ pc = "release"
    /\ build_cmd = <<>>
    /\ build_status = -1
    /\ copy_cmd = <<>>
    /\ copy_status = -1
    /\ exit_status = -1

\* if '--release' in args: binary_dir = "release"
ScanRelease ==
    /\ pc = "release"
    /\ binary_dir' = IF In(RELEASE, args) THEN RELEASE_DIR ELSE binary_dir
    /\ pc' = "rename"
    /\ UNCHANGED <<argv, args, filename, out_path, build_cmd, build_status,
                   copy_cmd, copy_status, exit_status>>

\* args.index('--rename') raises ValueError: filename = None
RenameAbsent ==
    /\ pc = "rename"
    /\ ~In(RENAME, args)
    /\ filename' = NoneVal
    /\ pc' = "out_path"
    /\ UNCHANGED <<argv, args, binary_dir, out_path, build_cmd, build_status,
                   copy_cmd, copy_status, exit_status>>

\* the slip of reading the value without popping it: args.pop(i); filename = args[i]
RenameTakenKeepsValue ==
    /\ pc = "rename"
    /\ In(RENAME, args)
    /\ LET i == Index(args, RENAME)
           rest == Pop(args, i)
       IN  /\ i <= Len(rest)
           /\ filename' = StrVal(rest[i])
           /\ args' = rest
    /\ pc' = "out_path"
    /\ UNCHANGED <<argv, binary_dir, out_path, build_cmd, build_status,
                   copy_cmd, copy_status, exit_status>>

\* args.pop(i); filename = args.pop(i)
RenameTaken ==
    /\ pc = "rename"
    /\ In(RENAME, args)
    /\ LET i == Index(args, RENAME)
           rest == Pop(args, i)
       IN  /\ i <= Len(rest)
           /\ filename' = StrVal(rest[i])
           /\ args' = Pop(rest, i)
    /\ pc' = "out_path"
    /\ UNCHANGED <<argv, binary_dir, out_path, build_cmd, build_status,
                   copy_cmd, copy_status, exit_status>>

\* the slip of catching the IndexError as well: filename = None, the run goes on
RenameMissingValueCaught ==
    /\ pc = "rename"
    /\ In(RENAME, args)
    /\ LET i == Index(args, RENAME)
           rest == Pop(args, i)
       IN  /\ i > Len(rest)
           /\ args' = rest
    /\ filename' = NoneVal
    /\ pc' = "out_path"
    /\ UNCHANGED <<argv, binary_dir, out_path, build_cmd, build_status,
                   copy_cmd, copy_status, exit_status>>

\* args.pop(i) succeeds, the second args.pop(i) raises IndexError, which
\* nothing catches: the interpreter prints the traceback and exits with 1
RenameMissingValue ==
    /\ pc = "rename"
    /\ In(RENAME, args)
    /\ LET i == Index(args, RENAME)
           rest == Pop(args, i)
       IN  /\ i > Len(rest)
           /\ args' = rest
    /\ pc' = "exit"
    /\ exit_status' = 1
    /\ UNCHANGED <<argv, binary_dir, filename, out_path, build_cmd, build_status,
                   copy_cmd, copy_status>>

NoFlagPrefix(arg) == ~StartsWith(arg, DASHDASH)

\* the slip of leaving out args.pop(i): the destination stays in args
TakeOutPathNoPop ==
    /\ pc = "out_path"
    /\ LET positional == SelectSeq(args, NoFlagPrefix)
       IN  IF Truthy(positional)
           THEN out_path' = StrVal(positional[1])
           ELSE out_path' = EmptyList
    /\ pc' = "build"
    /\ UNCHANGED <<argv, args, binary_dir, filename, build_cmd, build_status,
                   copy_cmd, copy_status, exit_status>>

\* out_path = [arg for arg in args if not arg.startswith('--')]
\* if out_path: out_path = out_path[0]; i = args.index(out_path); args.pop(i)
TakeOutPath ==
    /\ pc = "out_path"
    /\ LET positional == SelectSeq(args, NoFlagPrefix)
       IN  IF Truthy(positional)
           THEN /\ out_path' = StrVal(positional[1])
                /\ args' = Pop(args, Index(args, positional[1]))
           ELSE /\ out_path' = EmptyList
                /\ args' = args
    /\ pc' = "build"
    /\ UNCHANGED <<argv, binary_dir, filename, build_cmd, build_status,
                   copy_cmd, copy_status, exit_status>>

\* subprocess.run([...] + args, check=True) returns: the build exited with 0
BuildOk ==
    /\ pc = "build"
    /\ build_cmd' = BuildCmd(args)
    /\ build_status' = 0
    /\ pc' = "copy"
    /\ UNCHANGED <<argv, args, binary_dir, filename, out_path,
                   copy_cmd, copy_status, exit_status>>

\* the slip of running the build without check=True: a nonzero status is ignored
BuildFailUnchecked ==
    /\ pc = "build"
    /\ \E status \in 1..MaxStatus :
          build_status' = status
    /\ build_cmd' = BuildCmd(args)
    /\ pc' = "copy"
    /\ UNCHANGED <<argv, args, binary_dir, filename, out_path, copy_cmd, copy_status,
                   exit_status>>

\* check=True raises CalledProcessError on a nonzero status; nothing catches it
BuildFail ==
    /\ pc = "build"
    /\ \E status \in 1..MaxStatus :
          build_status' = status
    /\ build_cmd' = BuildCmd(args)
    /\ pc' = "exit"
    /\ exit_status' = 1
    /\ UNCHANGED <<argv, args, binary_dir, filename, out_path, copy_cmd, copy_status>>

\* `if out_path:` is false: the script ends
CopySkip ==
    /\ pc = "copy"
    /\ ~Truthy(out_path.val)
    /\ pc' = "exit"
    /\ exit_status' = 0
    /\ UNCHANGED <<argv, args, binary_dir, filename, out_path,
                   build_cmd, build_status, copy_cmd, copy_status>>

\* out_path = Path(out_path).absolute(); filename = filename or out_path.name
\* subprocess.run(['cp', '-a', source, out_path], check=True)
Copy(status) ==
    /\ pc = "copy"
    /\ Truthy(out_path.val)
    /\ LET dest == Absolute(Path(out_path.val))
           out_basename == Name(dest)
           name == IF Truthy(filename.val) THEN filename.val ELSE out_basename
       IN  /\ out_path' = [kind |-> "path", val |-> PathStr(dest)]
           /\ filename' = StrVal(name)
           /\ copy_cmd' = CopyCmd(binary_dir, name, dest)
    /\ copy_status' = status
    /\ pc' = "exit"
    /\ exit_status' = IF status = 0 THEN 0 ELSE 1
    /\ UNCHANGED <<argv, args, binary_dir, build_cmd, build_status>>

CopyOk == Copy(0)

CopyFail == \E status \in 1..MaxStatus : Copy(status)

Next ==
    \/ ScanRelease
    \/ RenameAbsent
    \/ RenameTaken
    \/ RenameMissingValue
    \/ TakeOutPath
    \/ BuildOk
    \/ BuildFail
    \/ CopySkip
    \/ CopyOk
    \/ CopyFail

Spec == Init /\ [][Next]_vars

TypeOK ==
    /\ pc \in {"release", "rename", "out_path", "build", "copy", "exit"}
    /\ Len(argv) <= MaxArgs
    /\ exit_status \in {-1, 0, 1}

(* --------------------- vocabulary of the properties -------------------- *)

\* the token carries the flag prefix '--'
HasFlagPrefix(t) == Len(t) >= 2 /\ t[1] = "-" /\ t[2] = "-"

\* position of the first '--rename' of the raw arguments, 0 when there is none
RenameAt ==
    IF \E i \in DOMAIN argv : argv[i] = RENAME
    THEN CHOOSE i \in DOMAIN argv : argv[i] = RENAME /\ \A j \in DOMAIN argv : argv[j] = RENAME => i <= j
    ELSE 0

\* the first '--rename' is followed by a value
HasRename == RenameAt # 0 /\ RenameAt < Len(argv)

\* the positions of the rename directive
RenamePair == IF HasRename THEN {RenameAt, RenameAt + 1} ELSE {}

\* positions outside the rename directive whose token lacks the flag prefix
Positionals == { i \in DOMAIN argv \ RenamePair : ~HasFlagPrefix(argv[i]) }

\* position of the destination token in the raw arguments, 0 when there is none
DestAt ==
    IF Positionals = {} THEN 0
    ELSE CHOOSE i \in Positionals : \A j \in Positionals : i <= j

DestPos == IF DestAt = 0 THEN {} ELSE {DestAt}

\* s without the positions in D, the rest in order
Without(s, D) ==
    LET keep == DOMAIN s \ D
    IN  [k \in 1..Cardinality(keep) |->
            s[CHOOSE i \in keep : Cardinality({j \in keep : j <= i}) = k]]

\* number of occurrences of t in s
Count(s, t) == Cardinality({i \in DOMAIN s : s[i] = t})

RECURSIVE IsSubseq(_, _)
IsSubseq(a, b) ==
    IF a = <<>> THEN TRUE
    ELSE IF b = <<>> THEN FALSE
    ELSE IF Head(a) = Head(b) THEN IsSubseq(Tail(a), Tail(b))
    ELSE IsSubseq(a, Tail(b))

\* classification ended without an error and nothing later has rebound
\* filename or out_path
Classified == pc \in {"build", "copy"}

\* the arguments the build subprocess was started with
Forwarded == SubSeq(build_cmd, 4, Len(build_cmd))

BuildRan == build_cmd # <<>>

CopyRan == copy_cmd # <<>>

(* ------------------------------- C1 ------------------------------------ *)

\* C1: the copy subprocess is started only in a step taken after the build
\* subprocess has returned status zero; once the build has returned a nonzero
\* status the tool has terminated with a nonzero status and no copy was made.
C1_CopyOnlyAfterBuildSuccess ==
    /\ [][copy_cmd' # copy_cmd => (BuildRan /\ build_status = 0)]_vars
    /\ [](build_status > 0 => (pc = "exit" /\ exit_status > 0 /\ ~CopyRan))

C1_Witness == CopyRan /\ BuildRan /\ build_status = 0 /\ pc = "exit"

(* ------------------------------- C2 ------------------------------------ *)

ReleaseTerm(t) == IF t = RELEASE /\ binary_dir = RELEASE_DIR THEN 1 ELSE 0

RenameTerm(t) ==
    IF filename.kind = "str"
    THEN (IF t = RENAME THEN 1 ELSE 0) + (IF t = filename.val THEN 1 ELSE 0)
    ELSE 0

DestTerm(t) == IF out_path.kind = "str" /\ t = out_path.val THEN 1 ELSE 0

\* C2 as stated: passthroughArgs plus the release flag (mode Release) plus the
\* rename pair plus the destination token is the multiset of the raw arguments.
C2_Original ==
    Classified =>
        \A t \in Tokens :
            Count(args, t) + ReleaseTerm(t) + RenameTerm(t) + DestTerm(t) = Count(argv, t)

\* C2: passthroughArgs (which keeps every '--release' token that is not the
\* rename value) plus the rename pair plus the destination token is the
\* multiset of the raw arguments.
C2_Partition ==
    Classified =>
        \A t \in Tokens :
            Count(args, t) + RenameTerm(t) + DestTerm(t) = Count(argv, t)

C2_Witness ==
    /\ pc = "build"
    /\ binary_dir = RELEASE_DIR
    /\ filename.kind = "str"
    /\ out_path.kind = "str"
    /\ In(RELEASE, args)

(* ------------------------------- C3 ------------------------------------ *)

\* C3: mode is Release exactly when '--release' occurs in the raw arguments,
\* and a '--release' of the raw arguments is among the forwarded arguments.
C3_ReleaseDualPurpose ==
    Classified =>
        /\ (binary_dir = RELEASE_DIR <=> In(RELEASE, argv))
        /\ (binary_dir = DEBUG_DIR <=> ~In(RELEASE, argv))
        /\ (In(RELEASE, argv) => In(RELEASE, args))

(* ------------------------------- C4 ------------------------------------ *)

\* C4 as stated: with '--rename' followed by a value in the raw arguments,
\* neither '--rename' nor the value is among the forwarded arguments and
\* renamedArtifactName is the value.
C4_Original ==
    (Classified /\ HasRename) =>
        /\ ~In(RENAME, args)
        /\ ~In(argv[RenameAt + 1], args)
        /\ filename = StrVal(argv[RenameAt + 1])

\* C4: when the first '--rename' of the raw arguments is followed by a token,
\* exactly these two positions are removed by the rename step, they are not
\* among the forwarded arguments, and renamedArtifactName is that token.
C4_RenamePairRemoved ==
    HasRename =>
        /\ pc = "out_path" => (args = Without(argv, RenamePair)
                                 /\ filename = StrVal(argv[RenameAt + 1]))
        /\ Classified => (IsSubseq(args, Without(argv, RenamePair))
                            /\ Len(args) >= Len(argv) - 3
                            /\ filename = StrVal(argv[RenameAt + 1]))
        /\ BuildRan => IsSubseq(Forwarded, Without(argv, RenamePair))

C4_Witness ==
    /\ HasRename
    /\ HasFlagPrefix(argv[RenameAt + 1])
    /\ BuildRan
    /\ Len(Forwarded) >= 1

(* ------------------------------- C5 ------------------------------------ *)

\* C5: the exit status is 0 exactly when the build returned zero and the copy
\* either returned zero or was skipped for want of a destination token.
C5_ExitStatus ==
    pc = "exit" =>
        (exit_status = 0 <=> (build_status = 0 /\ (copy_status = 0 \/ DestAt = 0)))

(* ------------------------------- C6 ------------------------------------ *)

NoSubprocessAndFailure ==
    /\ ~BuildRan
    /\ ~CopyRan
    /\ pc = "exit" => exit_status > 0

\* C6 as stated: '--rename' as the last raw token is a usage error.
C6_Original ==
    (Len(argv) > 0 /\ argv[Len(argv)] = RENAME) => NoSubprocessAndFailure

\* C6: when the first '--rename' of the raw arguments is their last token, no
\* subprocess is ever started and the exit status is nonzero.
C6_UsageError ==
    (RenameAt # 0 /\ RenameAt = Len(argv)) => NoSubprocessAndFailure

C6_Witness ==
    /\ RenameAt = Len(argv)
    /\ Len(argv) >= 2
    /\ pc = "exit"
    /\ exit_status = 1

(* ------------------------------- C7 ------------------------------------ *)

ExpectedName ==
    IF HasRename THEN argv[RenameAt + 1]
    ELSE Name(Absolute(Path(argv[DestAt])))

\* C7: the copy reads '{mode_dir}/{filename}', filename being the rename value
\* whenever a rename directive was given and otherwise the basename of the
\* absolute destination, and writes the absolute destination.
C7_CopySourceAndTarget ==
    CopyRan =>
        /\ binary_dir = (IF In(RELEASE, argv) THEN RELEASE_DIR ELSE DEBUG_DIR)
        /\ copy_cmd[3] = <<".", "/">> \o binary_dir \o <<"/">> \o ExpectedName
        /\ copy_cmd[4] = PathStr(Absolute(Path(argv[DestAt])))

(* ------------------------------- C8 ------------------------------------ *)

\* C8: of the tokens left by the rename step only the first one without the
\* '--' prefix is taken as destination; all others, later ones without the
\* prefix included, are forwarded in their original order.
C8_FirstPositionalWins ==
    Classified =>
        /\ args = Without(argv, RenamePair \cup DestPos)
        /\ IsSubseq(args, argv)
        /\ out_path = (IF DestAt = 0 THEN EmptyList ELSE StrVal(argv[DestAt]))
        /\ \A i \in Positionals \ DestPos : In(argv[i], args)

C8_Witness ==
    /\ pc = "copy"
    /\ DestAt # 0
    /\ \E i \in Positionals : i > DestAt /\ argv[i] = argv[DestAt]
    /\ \E i \in DOMAIN argv : i < DestAt /\ HasFlagPrefix(argv[i])
    /\ Len(argv[DestAt]) > 0
    /\ In(argv[DestAt], Forwarded)

(* ------------------------------- C9 ------------------------------------ *)

ScenarioArgs == << RELEASE, <<"-", "o">>, <<"f", "o", "o">> >>

\* C9 as stated: ["--release", "-o", "foo"] is forwarded whole.
C9_Original ==
    (argv = ScenarioArgs /\ Classified) =>
        (binary_dir = RELEASE_DIR /\ args = ScenarioArgs)

\* C9: for ["--release", "-o", "foo"] mode is Release, '-o' is taken as the
\* destination and the build receives ["--release", "foo"].
C9_Scenario ==
    argv = ScenarioArgs =>
        /\ Classified => /\ binary_dir = RELEASE_DIR
                         /\ out_path = StrVal(<<"-", "o">>)
                         /\ args = << RELEASE, <<"f", "o", "o">> >>
        /\ BuildRan => Forwarded = << RELEASE, <<"f", "o", "o">> >>

C9_Witness == argv = ScenarioArgs /\ BuildRan /\ CopyRan /\ exit_status = 0

(* ------------------------------- C10 ----------------------------------- *)

\* C10: after a successful build a copy is attempted exactly when a token was
\* taken out of the forwarded arguments as the destination.
C10_CopyIffDestinationTaken ==
    (pc = "exit" /\ build_status = 0) => (CopyRan <=> DestAt # 0)
====
